---- MODULE Spec2Model ----
(***************************************************************************)
(* Model of mnist_classifier.py: the batch source (data_stream), the       *)
(* train/eval loop of main with its two parameter streams (params and      *)
(* avg_params), the rotation-cascade network built by                      *)
(* orthogonal_network_builder, and the accuracy metric.                    *)
(*                                                                         *)
(* Arrays are sequences; a Python index r is the sequence index r + 1.     *)
(* Real numbers are fixed-point integers: a parameter value v stands for   *)
(* v / 10^6.                                                               *)
(***************************************************************************)
EXTENDS Integers, Sequences, FiniteSets

\* ------------------------------------------------------------------ bounds
MaxTrain == 3
MaxBatch == 2
MaxSteps == 102
MaxDim == 3
MaxRows == 2
MaxClasses == 2

\* ------------------------------------------------------- program constants
learning_rate == 1000
EvalEvery == 100
Depth == 2
StepNum == 1
StepDen == 1000
L2Den == 10000
DecayNum == 9
DecayDen == 10

VARIABLES
    \* main: configuration and batch source
    num_train, batch_size, batches, yielded, epochSeen,
    \* main: train/eval loop
    pc, step, batch_features, batch_labels,
    params, opt_state, avg_params,
    train_accuracy, test_accuracy, stdout,
    \* main: call records of update and accuracy
    updLog, evalLog, evalSteps

trainVars == <<num_train, batch_size, batches, yielded, epochSeen,
               pc, step, batch_features, batch_labels,
               params, opt_state, avg_params,
               train_accuracy, test_accuracy, stdout,
               updLog, evalLog, evalSteps>>

VARIABLES
    \* orthogonal_network_builder: configuration
    output_sizes, with_bias, activate_final, normalize,
    \* network_fn: position, locals and the parameters haiku has created
    npc, x, x_den, idx, size, wires, w, theta, hk_params,
    \* network_fn: shape and squared norm of x when the layer began
    dim, norm2_in

netVars == <<output_sizes, with_bias, activate_final, normalize,
             npc, x, x_den, idx, size, wires, w, theta, hk_params,
             dim, norm2_in>>

VARIABLES
    \* accuracy on a batch of logits and one-hot labels, before and after a
    \* permutation sigma of the class columns
    apc, logits, onehot, sigma, acc, acc_sigma

accVars == <<apc, logits, onehot, sigma, acc, acc_sigma>>

vars == <<trainVars, netVars, accVars>>

\* ----------------------------------------------------------------- helpers
Min(a, b) == IF a < b THEN a ELSE b

Max(a, b) == IF a > b THEN a ELSE b

RECURSIVE SumSeq(_)
SumSeq(s) == IF s = <<>> THEN 0 ELSE Head(s) + SumSeq(Tail(s))

RECURSIVE IsqrtBetween(_, _, _)
IsqrtBetween(n, lo, hi) ==
    IF lo >= hi THEN lo
    ELSE LET mid == (lo + hi + 1) \div 2
         IN  IF mid * mid <= n THEN IsqrtBetween(n, mid, hi)
             ELSE IsqrtBetween(n, lo, mid - 1)

\* floor of the square root (jnp.sqrt at the model's resolution)
Isqrt(n) == IsqrtBetween(n, 0, Min(n, 46340))

\* index of the first maximal entry, 0-based (jnp.argmax)
argmax(row) ==
    (CHOOSE k \in 1..Len(row) :
        /\ \A m \in 1..Len(row) : row[m] <= row[k]
        /\ \A m \in 1..(k - 1) : row[m] < row[k]) - 1

\* Python slice a[lo:hi] for 0 <= lo <= hi, clamped to the length of a
Slice(a, lo, hi) ==
    [k \in 1..(Min(hi, Len(a)) - Min(lo, Len(a))) |-> a[Min(lo, Len(a)) + k]]

\* ----------------------------------------------------------------- dataset
\* mnist(digits) and pca are external: a fixed synthetic data set with two
\* classes, one feature per row, distinct from row to row.
train_features_of(n) == [r \in 1..n |-> (2 * r - 1) * 100000]

train_labels_of(n) == [r \in 1..n |-> IF r % 2 = 1 THEN <<1, 0>> ELSE <<0, 1>>]

test_features == <<-200000, 400000>>

test_labels == <<<<1, 0>>, <<0, 1>>>>

train_features == train_features_of(num_train)

train_labels == train_labels_of(num_train)

\* ------------------------------------------------------------ batch source
\* divmod(num_train, batch_size) and the number of batches of an epoch
num_complete_batches == num_train \div batch_size

leftover == num_train % batch_size

\* fault: the incomplete batch at the end of an epoch is dropped
num_batches_complete_only == num_complete_batches

num_batches == num_complete_batches + (IF leftover # 0 THEN 1 ELSE 0)

\* random_state.permutation(n): every ordering of 0..n-1
permutation(n) ==
    {p \in [1..n -> 0..(n - 1)] : \A a, b \in 1..n : p[a] = p[b] => a = b}

\* perm[i * batch_size:(i + 1) * batch_size]
batch_idx_of(perm, i) == Slice(perm, i * batch_size, (i + 1) * batch_size)

\* a[batch_idx] (fancy indexing by a sequence of 0-based rows)
Take(a, rows) == [k \in 1..Len(rows) |-> a[rows[k] + 1]]

\* next(batches): resume data_stream until its next yield
NextBatch ==
    \E perm \in permutation(num_train) :
        LET fresh == \/ ~batches.started
                     \/ batches.i + 1 >= num_batches
            p == IF fresh THEN perm ELSE batches.perm
            i == IF fresh THEN 0 ELSE batches.i + 1
            batch_idx == batch_idx_of(p, i)
        IN  /\ fresh \/ perm = batches.perm
            /\ batches' = [started |-> TRUE, perm |-> p, i |-> i]
            /\ yielded' = [features |-> Take(train_features, batch_idx),
                           labels |-> Take(train_labels, batch_idx),
                           idx |-> batch_idx, n |-> yielded.n + 1]
            /\ epochSeen' = (IF fresh THEN <<>> ELSE epochSeen) \o batch_idx

\* ----------------------------------------------------------------- network
\* net.apply on the one-parameter stand-in for the network used by the loop:
\* the logits of a row with feature f are (-p*f, p*f)
net_apply(p, features) ==
    [k \in 1..Len(features) |->
        LET z == (p \div 1000) * (features[k] \div 100000)
        IN  <<-z, z>>]

\* hk.initializers.RandomUniform(-pi, pi): sample values
InitParams == {-1000000, 500000}

\* --------------------------------------------------------------- objective
\* gradient of loss(params, features, labels) with respect to params, for
\* the stand-in objective mean_r (params - t_r)^2 / 2 + 1e-4 * params^2 / 2
\* whose target t_r is the feature of row r signed by its label
Target(f, l) == IF argmax(l) = 1 THEN f ELSE -f

grad_loss(p, features, labels) ==
    LET n == Len(labels)
        t == [k \in 1..n |-> Target(features[k], labels[k])]
    IN  (p - (SumSeq(t) \div n)) \div 10000 + (p \div L2Den) \div 10000

\* fault: the class indices are compared with <= instead of ==
MeanCorrectOrdered(predictions, labels) ==
    <<Cardinality({k \in 1..Len(labels) :
                      argmax(predictions[k]) <= argmax(labels[k])}),
      Len(labels)>>

\* jnp.mean(jnp.argmax(predictions, 1) == jnp.argmax(labels, 1)) as the
\* fraction <<correct rows, rows>>
MeanCorrect(predictions, labels) ==
    <<Cardinality({k \in 1..Len(labels) :
                      argmax(predictions[k]) = argmax(labels[k])}),
      Len(labels)>>

accuracy(p, features, labels) == MeanCorrect(net_apply(p, features), labels)

\* f"{a:.3f}": thousandths, ties to even
Round3(a) ==
    LET q == (1000 * a[1]) \div a[2]
        r == (1000 * a[1]) % a[2]
    IN  IF 2 * r > a[2] \/ (2 * r = a[2] /\ q % 2 = 1) THEN q + 1 ELSE q

\* --------------------------------------------------------------- optimizer
\* optax.rmsprop(learning_rate): nu' = 0.9 nu + 0.1 g^2 and
\* updates = -learning_rate * g / sqrt(nu'); opt_state is 100 * nu
rms_nu(g, state) == (DecayNum * state + 100 * g * g) \div DecayDen

rms_updates(g, state) ==
    IF g = 0 THEN 0
    ELSE -((learning_rate * g * 10) \div Isqrt(rms_nu(g, state)))

\* update(params, opt_state, features, labels)
update(p, state, features, labels) ==
    LET grads == grad_loss(p, features, labels)
    IN  [new_params |-> p + rms_updates(grads, state),
         opt_state |-> rms_nu(grads, state)]

\* optax.incremental_update(params, avg_params, step_size = 0.001):
\* step_size * new + (1 - step_size) * old
ema_update(p, avg) == (StepNum * p + (StepDen - StepNum) * avg) \div StepDen

\* ------------------------------------------------------- rotation cascade
\* One row of the batch x is modelled; every operation of network_fn acts on
\* the rows independently.  The row stands for x[k] / sqrt(x_den), and
\* x_den = 0 marks a row of NaN (the outcome of 0 / 0).

\* fault: the lower end of the run is not clamped at 0
WireRunNoClamp(i, sz) == [k \in 1..sz |-> i - k + 1]

\* [j for j in range(i, max(0, i - size), -1)]
WireRun(i, sz) == [k \in 1..(i - Max(0, i - sz)) |-> i - k + 1]

\* [j for i in range(1, d) for j in range(i, max(0, i - size), -1)]
RECURSIVE WiresUpTo(_, _)
WiresUpTo(last, sz) ==
    IF last < 1 THEN <<>> ELSE WiresUpTo(last - 1, sz) \o WireRun(last, sz)

Wires(d, sz) == WiresUpTo(d - 1, sz)

\* jnp.cos and jnp.sin of theta = t * pi / 2
Cos(t) == CASE t = 0 -> 1 [] t = 1 -> 0 [] t = 2 -> -1 [] t = 3 -> 0

Sin(t) == CASE t = 0 -> 0 [] t = 1 -> 1 [] t = 2 -> 0 [] t = 3 -> -1

\* hk.initializers.RandomUniform(-pi, pi): the angles that are multiples of
\* pi / 2, as t * pi / 2 modulo 2 pi
Angles == 0..3

\* fault: x[:, j] is computed from the already rotated x[:, j - 1]
RotateSequential(row, j, t) ==
    LET cos_t == Cos(t)
        sin_t == Sin(t)
        c_t == cos_t * row[j] - sin_t * row[j + 1]
        row1 == [row EXCEPT ![j] = c_t]
        d_t == sin_t * row1[j] + cos_t * row1[j + 1]
    IN  [row1 EXCEPT ![j + 1] = d_t]

\* the body of `for j, theta in zip(wires, thetas)`; j is 0-based
Rotate(row, j, t) ==
    LET cos_t == Cos(t)
        sin_t == Sin(t)
        a_t == row[j]
        b_t == row[j + 1]
        c_t == cos_t * a_t - sin_t * b_t
        d_t == sin_t * a_t + cos_t * b_t
        row1 == [row EXCEPT ![j] = c_t]
    IN  [row1 EXCEPT ![j + 1] = d_t]

\* jnp.linalg.norm(x, axis=1) squared
SumSq(row) == SumSeq([k \in 1..Len(row) |-> row[k] * row[k]])

\* the activation handed to the builder: jax.nn.relu
activation(row) == [k \in 1..Len(row) |-> Max(0, row[k])]

\* x[:, -size:]
LastCols(row, sz) ==
    LET n == Len(row)
        start == IF -sz < 0 THEN Max(0, n - sz) ELSE Min(-sz, n)
    IN  [k \in 1..(n - start) |-> row[start + k]]

\* the input rows offered to the network
Ramp(d) == [k \in 1..d |-> k]

Unit(d, e) == [k \in 1..d |-> IF k = e THEN 1 ELSE 0]

InputRows == UNION {{Ramp(d)} \cup {Unit(d, e) : e \in 1..d} : d \in 1..MaxDim}

SizeLists ==
    UNION {[1..n -> 0..(MaxDim + 1)] : n \in 1..Depth}

NetIdle ==
    /\ output_sizes = <<>>
    /\ with_bias = FALSE
    /\ activate_final = FALSE
    /\ normalize = FALSE
    /\ npc = "off"
    /\ x = <<>>
    /\ x_den = 1
    /\ idx = 0
    /\ size = 0
    /\ wires = <<>>
    /\ w = 0
    /\ theta = 0
    /\ hk_params = {}
    /\ dim = 0
    /\ norm2_in = 0

\* net.init(rng_key, x) entering network_fn
InitNet ==
    /\ output_sizes \in SizeLists
    /\ with_bias \in BOOLEAN
    /\ activate_final \in BOOLEAN
    /\ normalize \in BOOLEAN
    /\ npc = "layer"
    /\ x \in InputRows
    /\ x_den = 1
    /\ idx = 0
    /\ size = 0
    /\ wires = <<>>
    /\ w = 0
    /\ theta = 0
    /\ hk_params = {}
    /\ dim = 0
    /\ norm2_in = 0

cfgVars == <<output_sizes, with_bias, activate_final, normalize>>

\* `for idx, size in enumerate(output_sizes)`: wires and thetas of the layer
BuildSchedule ==
    /\ npc = "layer"
    /\ idx < Len(output_sizes)
    /\ size' = output_sizes[idx + 1]
    /\ dim' = Len(x)
    /\ norm2_in' = SumSq(x)
    /\ wires' = Wires(Len(x), size')
    /\ hk_params' = hk_params \cup
          {[name |-> "thetas", idx |-> idx, shape |-> <<Len(wires')>>]}
    /\ npc' = "normalize"
    /\ UNCHANGED <<cfgVars, x, x_den, idx, w, theta>>
    /\ UNCHANGED <<trainVars, accVars>>

\* `return x` once output_sizes is exhausted
ReturnLogits ==
    /\ npc = "layer"
    /\ idx >= Len(output_sizes)
    /\ npc' = "return"
    /\ UNCHANGED <<cfgVars, x, x_den, idx, size, wires, w, theta, hk_params,
                   dim, norm2_in>>
    /\ UNCHANGED <<trainVars, accVars>>

\* `if normalize: x /= stop_gradient(norm)`
Normalize ==
    /\ npc = "normalize"
    /\ x_den' = IF normalize
                THEN (IF x_den = 0 THEN 0 ELSE SumSq(x))
                ELSE x_den
    /\ w' = 0
    /\ npc' = "rotate"
    /\ UNCHANGED <<cfgVars, x, idx, size, wires, theta, hk_params,
                   dim, norm2_in>>
    /\ UNCHANGED <<trainVars, accVars>>

\* one iteration of `for j, theta in zip(wires, thetas)`; the entries of
\* thetas are independent draws, each taken when the loop reaches it
RotateWire ==
    /\ npc = "rotate"
    /\ w < Len(wires)
    /\ \E t \in Angles :
        /\ theta' = t
        /\ x' = Rotate(x, wires[w + 1], t)
    /\ w' = w + 1
    /\ UNCHANGED <<cfgVars, npc, x_den, idx, size, wires, hk_params,
                   dim, norm2_in>>
    /\ UNCHANGED <<trainVars, accVars>>

\* the shape of the bias parameter
BiasShape == <<Len(x)>>

\* `if with_bias: b = hk.get_parameter(...); x += b`, b initialised to 0
AddBias ==
    /\ npc = "rotate"
    /\ w >= Len(wires)
    /\ IF with_bias
       THEN LET b == [k \in 1..BiasShape[1] |-> 0]
            IN  /\ hk_params' = hk_params \cup
                      {[name |-> "b", idx |-> idx, shape |-> BiasShape]}
                /\ x' = [k \in 1..Len(x) |-> x[k] + b[k]]
       ELSE UNCHANGED <<hk_params, x>>
    /\ npc' = "activate"
    /\ UNCHANGED <<cfgVars, x_den, idx, size, wires, w, theta, dim, norm2_in>>
    /\ UNCHANGED <<trainVars, accVars>>

\* `if (idx < len(output_sizes) - 1) or activate_final: x = activation(x)`
Activate ==
    /\ npc = "activate"
    /\ x' = IF (idx < Len(output_sizes) - 1) \/ activate_final
            THEN activation(x)
            ELSE x
    /\ npc' = "truncate"
    /\ UNCHANGED <<cfgVars, x_den, idx, size, wires, w, theta, hk_params,
                   dim, norm2_in>>
    /\ UNCHANGED <<trainVars, accVars>>

\* `x = x[:, -size:]` and the next layer
Truncate ==
    /\ npc = "truncate"
    /\ x' = LastCols(x, size)
    /\ idx' = idx + 1
    /\ npc' = "layer"
    /\ UNCHANGED <<cfgVars, x_den, size, wires, w, theta, hk_params,
                   dim, norm2_in>>
    /\ UNCHANGED <<trainVars, accVars>>

NextNet ==
    \/ BuildSchedule \/ ReturnLogits \/ Normalize \/ RotateWire
    \/ AddBias \/ Activate \/ Truncate

\* -------------------------------------------------------- train/eval loop
NoLog == [step |-> -1]

TrainIdle ==
    /\ num_train = 1
    /\ batch_size = 1
    /\ batches = [started |-> FALSE, perm |-> <<>>, i |-> 0]
    /\ yielded = [features |-> <<>>, labels |-> <<>>, idx |-> <<>>, n |-> 0]
    /\ epochSeen = <<>>
    /\ pc = "off"
    /\ step = 0
    /\ batch_features = <<>>
    /\ batch_labels = <<>>
    /\ params = 0
    /\ opt_state = 0
    /\ avg_params = 0
    /\ train_accuracy = <<0, 1>>
    /\ test_accuracy = <<0, 1>>
    /\ stdout = <<>>
    /\ updLog = NoLog
    /\ evalLog = NoLog
    /\ evalSteps = {}

InitTrain ==
    /\ num_train \in 1..MaxTrain
    /\ batch_size \in 1..MaxBatch
    /\ batches = [started |-> FALSE, perm |-> <<>>, i |-> 0]
    /\ yielded = [features |-> <<>>, labels |-> <<>>, idx |-> <<>>, n |-> 0]
    /\ epochSeen = <<>>
    /\ pc = "build"
    /\ step = 0
    /\ batch_features = <<>>
    /\ batch_labels = <<>>
    /\ params = 0
    /\ opt_state = 0
    /\ avg_params = 0
    /\ train_accuracy = <<0, 1>>
    /\ test_accuracy = <<0, 1>>
    /\ stdout = <<>>
    /\ updLog = NoLog
    /\ evalLog = NoLog
    /\ evalSteps = {}

\* the condition of the evaluation branch
EvalDue(s) == s % EvalEvery = 0

\* params = avg_params = net.init(rng_key, next(batches)[0]);
\* opt_state = opt.init(params)
BuildNetwork ==
    /\ pc = "build"
    /\ NextBatch
    /\ \E p0 \in InitParams :
        /\ params' = p0
        /\ avg_params' = p0
    /\ opt_state' = 0
    /\ pc' = IF step < MaxSteps THEN "fetch" ELSE "done"
    /\ UNCHANGED <<num_train, batch_size, step, batch_features, batch_labels,
                   train_accuracy, test_accuracy, stdout,
                   updLog, evalLog, evalSteps>>
    /\ UNCHANGED <<netVars, accVars>>

\* batch_features, batch_labels = next(batches)
FetchBatch ==
    /\ pc = "fetch"
    /\ NextBatch
    /\ batch_features' = yielded'.features
    /\ batch_labels' = yielded'.labels
    /\ pc' = IF EvalDue(step) THEN "eval" ELSE "update"
    /\ UNCHANGED <<num_train, batch_size, step, params, opt_state, avg_params,
                   train_accuracy, test_accuracy, stdout,
                   updLog, evalLog, evalSteps>>
    /\ UNCHANGED <<netVars, accVars>>

\* fault: accuracy is measured on the live parameters
EvalParamsLive == params

\* the parameters handed to accuracy
EvalParams == avg_params

\* the body of `if step % 100 == 0`
Evaluate ==
    /\ pc = "eval"
    /\ train_accuracy' = accuracy(EvalParams, batch_features, batch_labels)
    /\ test_accuracy' = accuracy(EvalParams, test_features, test_labels)
    /\ stdout' = [step |-> step,
                  train |-> Round3(train_accuracy'),
                  test |-> Round3(test_accuracy')]
    /\ evalLog' = [step |-> step, params |-> EvalParams,
                   features |-> batch_features, labels |-> batch_labels,
                   test_features |-> test_features,
                   test_labels |-> test_labels]
    /\ evalSteps' = evalSteps \cup {step}
    /\ pc' = "update"
    /\ UNCHANGED <<num_train, batch_size, batches, yielded, epochSeen, step,
                   batch_features, batch_labels, params, opt_state,
                   avg_params, updLog>>
    /\ UNCHANGED <<netVars, accVars>>

\* the data handed to update
UpdateFeatures == train_features

UpdateLabels == train_labels

\* params, opt_state = update(params, opt_state, train_features, train_labels)
Update ==
    /\ pc = "update"
    /\ LET r == update(params, opt_state, UpdateFeatures, UpdateLabels)
       IN  /\ params' = r.new_params
           /\ opt_state' = r.opt_state
    /\ updLog' = [step |-> step, params |-> params,
                  features |-> UpdateFeatures, labels |-> UpdateLabels]
    /\ pc' = "ema"
    /\ UNCHANGED <<num_train, batch_size, batches, yielded, epochSeen, step,
                   batch_features, batch_labels, avg_params,
                   train_accuracy, test_accuracy, stdout, evalLog, evalSteps>>
    /\ UNCHANGED <<netVars, accVars>>

\* fault: the EMA reads the live parameters from before the update
EmaInputStale == updLog.params

\* the live parameters read by the EMA update
EmaInput == params

\* avg_params = ema_update(params, avg_params), then the next iteration
EmaUpdate ==
    /\ pc = "ema"
    /\ avg_params' = ema_update(EmaInput, avg_params)
    /\ step' = step + 1
    /\ pc' = IF step + 1 < MaxSteps THEN "fetch" ELSE "done"
    /\ UNCHANGED <<num_train, batch_size, batches, yielded, epochSeen,
                   batch_features, batch_labels, params, opt_state,
                   train_accuracy, test_accuracy, stdout,
                   updLog, evalLog, evalSteps>>
    /\ UNCHANGED <<netVars, accVars>>

NextTrain == BuildNetwork \/ FetchBatch \/ Evaluate \/ Update \/ EmaUpdate

\* ------------------------------------------------- accuracy under relabelling
LogitVals == {0, 1}

OneHot(c) == {[k \in 1..c |-> IF k = e THEN 1 ELSE 0] : e \in 1..c}

\* m[:, sigma]: column k of the result is column sigma[k] of m
PermuteCols(m, sg) ==
    [r \in 1..Len(m) |-> [k \in 1..Len(sg) |-> m[r][sg[k] + 1]]]

AccIdle ==
    /\ apc = "off"
    /\ logits = <<>>
    /\ onehot = <<>>
    /\ sigma = <<>>
    /\ acc = <<0, 1>>
    /\ acc_sigma = <<0, 1>>

InitAcc ==
    /\ apc = "plain"
    /\ \E r \in 1..MaxRows, c \in 2..MaxClasses :
        /\ logits \in [1..r -> [1..c -> LogitVals]]
        /\ onehot \in [1..r -> OneHot(c)]
        /\ sigma \in permutation(c)
    /\ acc = <<0, 1>>
    /\ acc_sigma = <<0, 1>>

\* accuracy of the logits against the labels
MeasurePlain ==
    /\ apc = "plain"
    /\ acc' = MeanCorrect(logits, onehot)
    /\ apc' = "permuted"
    /\ UNCHANGED <<logits, onehot, sigma, acc_sigma>>
    /\ UNCHANGED <<trainVars, netVars>>

\* accuracy after the same column permutation of logits and labels
MeasurePermuted ==
    /\ apc = "permuted"
    /\ acc_sigma' = MeanCorrect(PermuteCols(logits, sigma),
                                PermuteCols(onehot, sigma))
    /\ apc' = "done"
    /\ UNCHANGED <<logits, onehot, sigma, acc>>
    /\ UNCHANGED <<trainVars, netVars>>

NextAcc == MeasurePlain \/ MeasurePermuted

\* ---------------------------------------------------------- specifications
\* main, from the batch iterator to the end of the train/eval loop
Init == InitTrain /\ NetIdle /\ AccIdle

Spec == Init /\ [][NextTrain]_vars

\* network_fn run by net.init for every configuration of the builder
InitSpecNet == InitNet /\ TrainIdle /\ AccIdle

SpecNet == InitSpecNet /\ [][NextNet]_vars

\* accuracy on every small batch of logits and labels
InitSpecAcc == InitAcc /\ TrainIdle /\ NetIdle

SpecAcc == InitSpecAcc /\ [][NextAcc]_vars

\* ------------------------------------------------------------------ claims

\* C1 (as stated): the optimizer step of step s is computed on the
\* mini-batch pulled from the batch source at step s, and on no other data.
C1_UpdateOnBatch ==
    pc = "ema" =>
        /\ updLog.step = step
        /\ yielded.n = step + 2
        /\ updLog.features = batch_features
        /\ updLog.labels = batch_labels

\* C2: the EMA update of a step runs after the live update of that step and
\* moves the shadow by stepSize times the gap to the post-update live
\* parameters; live and shadow start equal to the network initialisation.
C2_EmaReadsNewLive ==
    /\ [](step = 0 /\ pc \in {"fetch", "eval", "update"}
            => params = avg_params /\ params \in InitParams)
    /\ [][pc = "ema" /\ pc' # "ema" =>
            /\ updLog.step = step
            /\ params' = params
            /\ avg_params' =
                   avg_params + (StepNum * (params - avg_params)) \div StepDen]_vars

C2_Witness ==
    /\ pc = "fetch"
    /\ step = 3
    /\ updLog.params # params
    /\ avg_params # params
    /\ avg_params \notin InitParams

\* C3: accuracy is evaluated at exactly the steps divisible by 100, on the
\* shadow parameters as they stand, on the batch drawn at that step and on
\* the full test set; the gradient is taken at the live parameters.
C3_EvalOnShadow ==
    /\ [](evalSteps =
            {s \in 0..step : /\ s % 100 = 0
                             /\ \/ s < step
                                \/ pc \in {"update", "ema"}})
    /\ [][evalLog' # evalLog =>
            /\ evalLog'.step = step
            /\ evalLog'.params = avg_params
            /\ params # avg_params => evalLog'.params # params
            /\ yielded.n = step + 2
            /\ evalLog'.features = yielded.features
            /\ evalLog'.labels = yielded.labels
            /\ evalLog'.test_features = test_features
            /\ evalLog'.test_labels = test_labels
            /\ train_accuracy' =
                   accuracy(avg_params, yielded.features, yielded.labels)
            /\ test_accuracy' =
                   accuracy(avg_params, test_features, test_labels)]_vars
    /\ [][updLog' # updLog =>
            /\ updLog'.params = params
            /\ params # avg_params => updLog'.params # avg_params]_vars

C3_Witness ==
    /\ pc = "update"
    /\ evalSteps = {0, 100}
    /\ evalLog.step = 100
    /\ evalLog.params = avg_params
    /\ evalLog.params # params

\* C10 (as stated): every mini-batch has exactly batch_size rows.
C10_AllBatchesFull ==
    batches.started => Len(yielded.features) = batch_size

\* C10 (amended): a mini-batch has batch_size rows unless it is the last of
\* its epoch and num_train is not a multiple of batch_size, when it has the
\* num_train mod batch_size rows left over; the batches of an epoch are
\* consecutive slices of one permutation of the training indices, and an
\* epoch ends only when every index has been yielded exactly once.
C10_BatchesPartitionEpoch ==
    /\ [](batches.started =>
            LET lo == batches.i * batch_size
                hi == (batches.i + 1) * batch_size
            IN  /\ lo < num_train
                /\ Len(yielded.idx) =
                       IF hi > num_train THEN num_train % batch_size
                       ELSE batch_size
                /\ Len(yielded.features) = Len(yielded.idx)
                /\ Len(yielded.labels) = Len(yielded.idx)
                /\ Len(epochSeen) = lo + Len(yielded.idx)
                /\ \A a, b \in 1..Len(epochSeen) :
                       epochSeen[a] = epochSeen[b] => a = b
                /\ \A a \in 1..Len(epochSeen) :
                       /\ epochSeen[a] \in 0..(num_train - 1)
                       /\ epochSeen[a] = batches.perm[a]
                /\ \A k \in 1..Len(yielded.idx) :
                       yielded.idx[k] = epochSeen[lo + k])
    /\ [][batches.started /\ batches' # batches /\ batches'.i = 0 =>
            {epochSeen[a] : a \in 1..Len(epochSeen)} = 0..(num_train - 1)]_vars

C10_Witness ==
    /\ num_train = 3
    /\ batch_size = 2
    /\ yielded.n = 4
    /\ Len(yielded.idx) = 1
    /\ batches.i = 1

\* C4 (as stated): a layer whose output size exceeds the width arriving at
\* it is rejected at construction: no parameter is created for it and no
\* result is returned.
C4_OversizeRejected ==
    size > dim => hk_params = {} /\ npc # "return"

\* number of wires of the runs 1..last, each of length min(i, size)
RECURSIVE RunLengths(_, _)
RunLengths(last, sz) ==
    IF last < 1 THEN 0 ELSE RunLengths(last - 1, sz) + Min(last, sz)

\* C5: for dim >= 1 and 0 <= size <= dim the wire schedule has
\* size*(2*dim - size - 1)/2 entries, the sum of the run lengths min(i, size);
\* run i is i, i-1, ..., max(0, i-size)+1, the runs come in increasing i, every
\* entry j has 0 <= j-1 < j < dim, and the schedule is empty when dim <= 1.
C5_WireCount ==
    (npc \in {"normalize", "rotate", "activate", "truncate"}
        /\ dim >= 1 /\ size <= dim) =>
        /\ 2 * Len(wires) = size * (2 * dim - size - 1)
        /\ Len(wires) = RunLengths(dim - 1, size)
        /\ \A k \in 1..Len(wires) : 0 <= wires[k] - 1 /\ wires[k] < dim
        /\ \A i \in 1..(dim - 1) : \A k \in 1..Min(i, size) :
               wires[RunLengths(i - 1, size) + k] = i - k + 1
        /\ dim <= 1 => wires = <<>>
        /\ [name |-> "thetas", idx |-> idx, shape |-> <<Len(wires)>>]
               \in hk_params

C5_Witness ==
    /\ npc = "normalize"
    /\ dim = 3
    /\ size = 2
    /\ wires = <<1, 2, 1>>

\* C6 (as stated): the bias created for a layer with size <= dim has length
\* size.
C6_BiasHasOutputWidth ==
    (npc = "activate" /\ with_bias /\ size <= dim) =>
        \A q \in hk_params :
            (q.name = "b" /\ q.idx = idx) => q.shape = <<size>>

\* C7 (as stated): a layer with 0 <= size <= dim returns a row of width
\* size, so the next layer and the logits have the widths of output_sizes.
C7_OutputWidthIsSize ==
    (npc \in {"layer", "return"} /\ idx > 0 /\ size <= dim) => Len(x) = size

\* C8: every rotation replaces the pair (a, b) at the wire by
\* (c*a - s*b, s*a + c*b) computed from the values read before either is
\* written, with c^2 + s^2 = 1, leaves the other coordinates alone and keeps
\* the squared norm; angle 0 is the identity and angle pi negates the pair;
\* a layer with size = dim and no normalization, bias or nonlinearity
\* returns a row of the squared norm it was given.
C8_RotationKeepsNorm ==
    /\ [][w' = w + 1 =>
            LET j == wires[w + 1]
                c == Cos(theta')
                s == Sin(theta')
            IN  /\ c * c + s * s = 1
                /\ x'[j] = c * x[j] - s * x[j + 1]
                /\ x'[j + 1] = s * x[j] + c * x[j + 1]
                /\ \A k \in 1..Len(x) : k \notin {j, j + 1} => x'[k] = x[k]
                /\ Len(x') = Len(x)
                /\ SumSq(x') = SumSq(x)
                /\ theta' = 0 => x' = x
                /\ theta' = 2 => x'[j] = -x[j] /\ x'[j + 1] = -x[j + 1]]_vars
    /\ []((/\ npc \in {"layer", "return"}
           /\ idx = Len(output_sizes)
           /\ ~normalize /\ ~with_bias /\ ~activate_final
           /\ size = dim)
          => SumSq(x) = norm2_in /\ x_den = 1 /\ Len(x) = dim)

C8_Witness ==
    /\ npc = "return"
    /\ output_sizes = <<3>>
    /\ ~normalize /\ ~with_bias /\ ~activate_final
    /\ w = 3
    /\ theta = 1
    /\ x = <<3, -2, 1>>

\* C9 (as stated): accuracy is unchanged by any permutation of the class
\* columns applied to logits and labels alike, ties among the logits included.
C9_PermutationInvariant ==
    apc = "done" => acc = acc_sigma

\* the logits of every row have a single maximal entry
UniqueMaxima ==
    \A r \in 1..Len(logits) : \A a, b \in 1..Len(logits[r]) :
        (/\ \A m \in 1..Len(logits[r]) : logits[r][m] <= logits[r][a]
         /\ \A m \in 1..Len(logits[r]) : logits[r][m] <= logits[r][b]) => a = b

\* C9 (amended): accuracy is unchanged by any permutation of the class
\* columns applied to logits and labels alike, provided the logits of every
\* row have a single maximal entry.
C9_InvariantWithoutTies ==
    (apc = "done" /\ UniqueMaxima) =>
        /\ acc = acc_sigma
        /\ acc[2] = Len(logits)
        /\ acc[1] = Cardinality({r \in 1..Len(logits) : \A k \in 1..Len(logits[r]) :
                         onehot[r][k] = 1 => \A m \in 1..Len(logits[r]) :
                             logits[r][m] <= logits[r][k]})

C9_Witness ==
    /\ apc = "done"
    /\ UniqueMaxima
    /\ Len(logits) = 2
    /\ sigma = <<1, 0>>
    /\ acc = <<1, 2>>
    /\ acc_sigma = <<1, 2>>
====
